---- MODULE Spec2Model ----
(***************************************************************************)
(* matjson::Value (src/src/value.cpp): a JSON value whose Array and Object *)
(* kinds share one ordered list of child Values, each child of an Object   *)
(* carrying its key inside its own ValueImpl.                              *)
(*                                                                         *)
(* The state is a store of Values: two top-level variables "v" and "w" of  *)
(* the calling code and the global dummy null.  A reference (Value&) is a  *)
(* slot of the store and a path of child positions below it.               *)
(***************************************************************************)
EXTENDS Integers, Sequences, FiniteSets, TLC

\* ------------------------------------------------------------------ bounds
\* child Values held by the store, summed over all containers:
MaxNodes == 1      \* when every operation is enabled (Spec)
MaxObjNodes == 2   \* under the Object operations alone (SpecKeyed, SpecObject)

\* ------------------------------------------------------------ value model
Keys == {"a", "b"}
NoKey == "<nullopt>"

Slots == {"v", "w"}
DummySlot == "dummy"

\* ValueImpl(type, payload): the key is absent at construction.
MkImpl(t, b, n, s, a) ==
    [type |-> t, key |-> NoKey, b |-> b, n |-> n, s |-> s, arr |-> a]

\* Value::Value()
DefaultValue == MkImpl("Object", FALSE, 0, "", <<>>)
\* Value::Value(std::nullptr_t)
NullValue == MkImpl("Null", FALSE, 0, "", <<>>)
\* Value::Value(bool)
BoolValue(x) == MkImpl("Bool", x, 0, "", <<>>)
\* Value::Value(intmax_t)
NumberValue(x) == MkImpl("Number", FALSE, x, "", <<>>)
\* Value::Value(std::string_view)
StringValue(x) == MkImpl("String", FALSE, 0, x, <<>>)
\* Value::Value(Array)
ArrayValue(elems) == MkImpl("Array", FALSE, 0, "", elems)

\* m_impl->key(), m_impl->setKey(k), m_impl->type(), m_impl->asArray()
ImplKey(x) == x.key
SetKey(x, k) == [x EXCEPT !.key = k]
TypeOf(x) == x.type
AsArray(x) == x.arr

\* --------------------------------------------------------------- references
Ref(slot, path) == [slot |-> slot, path |-> path]
DummyRef == Ref(DummySlot, <<>>)

\* other.m_impl == getDummyNullValue()->m_impl: the two unique_ptr hold the
\* same impl only when other is the dummy null itself
IsDummyNull(r) == r = DummyRef

\* CHECK_DUMMY_NULL: this is the dummy null
CheckDummyNull(r) == r = DummyRef

RECURSIVE At(_, _)
At(x, path) ==
    IF path = <<>> THEN x ELSE At(AsArray(x)[Head(path)], Tail(path))

RECURSIVE ReplaceAt(_, _, _)
ReplaceAt(x, path, new) ==
    IF path = <<>> THEN new
    ELSE [x EXCEPT !.arr[Head(path)] = ReplaceAt(@, Tail(path), new)]

RECURSIVE PathsOf(_)
PathsOf(x) ==
    {<<>>} \cup UNION {{<<i>> \o p : p \in PathsOf(AsArray(x)[i])} :
                         i \in 1..Len(AsArray(x))}

RefsOf(m) == {Ref(s, p) : s \in {DummySlot}, p \in {<<>>}}
             \cup UNION {{Ref(s, p) : p \in PathsOf(m[s])} : s \in Slots}

Deref(m, r) == At(m[r.slot], r.path)
Store(m, r, x) == [m EXCEPT ![r.slot] = ReplaceAt(@, r.path, x)]
ChildRef(r, i) == Ref(r.slot, r.path \o <<i>>)

\* number of Values below x
RECURSIVE NodeCount(_)
NodeCount(x) ==
    LET RECURSIVE Sum(_)
        Sum(i) == IF i = 0 THEN 0
                  ELSE 1 + NodeCount(AsArray(x)[i]) + Sum(i - 1)
    IN  Sum(Len(AsArray(x)))

StoreSize(m) == NodeCount(m["v"]) + NodeCount(m["w"])
Bounded(m) == StoreSize(m) <= MaxNodes
BoundedObj(m) == StoreSize(m) <= MaxObjNodes

\* --------------------------------------------------- constructors (by value)
\* Value::Value(Value const&): a new ValueImpl copied from the other's.
CopyCtor(m, src) == [mem |-> m, val |-> Deref(m, src)]

\* a move constructor that copies, leaving the source as it was
MoveCtorKeepsSource(m, src) == [mem |-> m, val |-> Deref(m, src)]

\* Value::Value(Value&&): the dummy null is left alone and a new Null is made;
\* otherwise the impl is taken and the source is given a new Null impl.
MoveCtor(m, src) ==
    IF IsDummyNull(src)
    THEN [mem |-> m, val |-> NullValue]
    ELSE [mem |-> Store(m, src, NullValue), val |-> Deref(m, src)]

\* A by-value parameter "Value value" is built by the caller from a
\* temporary, from an lvalue (copy) or from std::move of an lvalue.
Param(kind, val, ref) == [kind |-> kind, val |-> val, ref |-> ref]

PassByValue(m, p) ==
    CASE p.kind = "fresh" -> [mem |-> m, val |-> p.val]
      [] p.kind = "copy"  -> CopyCtor(m, p.ref)
      [] p.kind = "move"  -> MoveCtor(m, p.ref)

\* ------------------------------------------------------------- operations
NoRef == Ref("none", <<>>)
Out(m, res, ret) == [mem |-> m, res |-> res, ret |-> ret]

\* for (auto& value : arr) if (value.m_impl->key().value() == key) ...
\* optional::value() throws std::bad_optional_access on an absent key.
RECURSIVE Scan(_, _, _)
Scan(arr, key, i) ==
    IF i > Len(arr) THEN [res |-> "end", idx |-> 0]
    ELSE IF ImplKey(arr[i]) = NoKey
         THEN [res |-> "bad_optional_access", idx |-> i]
    ELSE IF ImplKey(arr[i]) = key THEN [res |-> "found", idx |-> i]
    ELSE Scan(arr, key, i + 1)

\* an assignment without the guard on the dummy null
OpAssignUnguarded(m, dst, value) ==
    LET key == ImplKey(Deref(m, dst))
    IN  Store(m, dst, IF key # NoKey THEN SetKey(value, key) ELSE value)

\* an assignment that swaps the impl and does not put the key back
OpAssignDropsKey(m, dst, value) ==
    IF CheckDummyNull(dst) THEN m ELSE Store(m, dst, value)

\* Value& Value::operator=(Value value)
OpAssign(m, dst, value) ==
    IF CheckDummyNull(dst) THEN m
    ELSE LET key == ImplKey(Deref(m, dst))
         IN  Store(m, dst, IF key # NoKey THEN SetKey(value, key) ELSE value)

\* Result<Value const&, GenericError> Value::get(std::string_view) const
OpGet(m, r, key) ==
    IF TypeOf(Deref(m, r)) # "Object" THEN Out(m, "not an object", NoRef)
    ELSE LET sc == Scan(AsArray(Deref(m, r)), key, 1)
         IN  CASE sc.res = "found" -> Out(m, "ok", ChildRef(r, sc.idx))
               [] sc.res = "end"   -> Out(m, "key not found", NoRef)
               [] OTHER            -> Out(m, sc.res, NoRef)

\* Result<Value const&, GenericError> Value::get(size_t) const
OpGetIdx(m, r, index) ==
    IF TypeOf(Deref(m, r)) # "Array" THEN Out(m, "not an array", NoRef)
    ELSE IF index >= Len(AsArray(Deref(m, r)))
         THEN Out(m, "index out of bounds", NoRef)
    ELSE Out(m, "ok", ChildRef(r, index + 1))

\* Value& Value::operator[](std::string_view)
OpIndexKey(m, r, key) ==
    IF TypeOf(Deref(m, r)) # "Object" THEN Out(m, "ok", DummyRef)
    ELSE LET arr == AsArray(Deref(m, r))
             sc  == Scan(arr, key, 1)
         IN  CASE sc.res = "found" -> Out(m, "ok", ChildRef(r, sc.idx))
               [] sc.res = "end"   ->
                    Out(Store(m, r, [Deref(m, r) EXCEPT
                              !.arr = Append(arr, SetKey(DefaultValue, key))]),
                        "ok", ChildRef(r, Len(arr) + 1))
               [] OTHER            -> Out(m, sc.res, NoRef)

\* Value& Value::operator[](size_t)
OpIndexIdx(m, r, index) ==
    LET g == OpGetIdx(m, r, index)
    IN  IF g.res = "ok" THEN g ELSE Out(m, "ok", DummyRef)

\* a set that appends without looking the key up
OpSetAppends(m, r, key, value) ==
    IF TypeOf(Deref(m, r)) # "Object" THEN Out(m, "ok", NoRef)
    ELSE Out(Store(m, r, [Deref(m, r) EXCEPT
                 !.arr = Append(@, SetKey(value, key))]), "ok", NoRef)

\* void Value::set(std::string_view key, Value value)
OpSet(m, r, key, value) ==
    IF TypeOf(Deref(m, r)) # "Object" THEN Out(m, "ok", NoRef)
    ELSE LET g == OpGet(m, r, key)
         IN  CASE g.res = "ok" -> Out(OpAssign(m, g.ret, value), "ok", NoRef)
               [] g.res = "key not found" ->
                    Out(Store(m, r, [Deref(m, r) EXCEPT
                              !.arr = Append(@, SetKey(value, key))]),
                        "ok", NoRef)
               [] OTHER -> Out(m, g.res, NoRef)

\* arr.erase(it)
RemoveAt(arr, i) == SubSeq(arr, 1, i - 1) \o SubSeq(arr, i + 1, Len(arr))

\* bool Value::erase(std::string_view key)
OpErase(m, r, key) ==
    IF TypeOf(Deref(m, r)) # "Object" THEN Out(m, "false", NoRef)
    ELSE LET arr == AsArray(Deref(m, r))
             sc  == Scan(arr, key, 1)
         IN  CASE sc.res = "found" ->
                    Out(Store(m, r, [Deref(m, r) EXCEPT
                              !.arr = RemoveAt(arr, sc.idx)]), "true", NoRef)
               [] sc.res = "end"   -> Out(m, "false", NoRef)
               [] OTHER            -> Out(m, sc.res, NoRef)

\* bool Value::contains(std::string_view key) const
OpContains(m, r, key) ==
    IF TypeOf(Deref(m, r)) # "Object" THEN Out(m, "false", NoRef)
    ELSE LET sc == Scan(AsArray(Deref(m, r)), key, 1)
         IN  CASE sc.res = "found" -> Out(m, "true", NoRef)
               [] sc.res = "end"   -> Out(m, "false", NoRef)
               [] OTHER            -> Out(m, sc.res, NoRef)

\* ---------------------------------------------- statements of the caller
\* dst = <param>;
RunAssign(m, dst, p) ==
    LET pv == PassByValue(m, p)
    IN  Out(OpAssign(pv.mem, dst, pv.val), "ok", dst)

\* r.set(key, <param>);
RunSet(m, r, key, p) ==
    LET pv == PassByValue(m, p)
    IN  OpSet(pv.mem, r, key, pv.val)

\* Value w(std::move(src));
RunMoveConstruct(m, src) ==
    LET mv == MoveCtor(m, src)
    IN  Out([mv.mem EXCEPT !["w"] = mv.val], "ok", Ref("w", <<>>))

\* Value w(src);
RunCopyConstruct(m, src) ==
    LET cp == CopyCtor(m, src)
    IN  Out([cp.mem EXCEPT !["w"] = cp.val], "ok", Ref("w", <<>>))

\* ------------------------------------------------------------------ state
\* mem["v"] is the document the operations are applied to, mem["w"] a second
\* top-level Value of the caller, mem["dummy"] the global dummy null.
\* last is the operation that ran last and whether it was applied through a
\* reference to the dummy null.
VARIABLES mem, last
vars == <<mem, last>>

Last(op, r) == [op |-> op, dummy |-> IsDummyNull(r)]

Init ==
    /\ mem = [s \in Slots \cup {DummySlot} |->
                 IF s = DummySlot THEN NullValue ELSE DefaultValue]
    /\ last = Last("init", NoRef)

\* ----------------------------------------------------------------- inputs
WRef == Ref("w", <<>>)

\* references the caller holds into the document: v, its descendants
\* (from get, operator[] or iteration) and the dummy null (failed lookup)
Targets(m) == {r \in RefsOf(m) : r.slot # "w"}
Children(m) == {r \in Targets(m) : r.path # <<>>}

Scalars == {NullValue, NumberValue(1)}
MoreScalars == {BoolValue(TRUE), StringValue("s")}

\* Value(Array{}) and Value(Array{w}), the element a copy of w
ArrayInputs(m) == {ArrayValue(<<>>), ArrayValue(<<CopyCtor(m, WRef).val>>)}

Fresh(xs) == {Param("fresh", x, NoRef) : x \in xs}
FreshParams(m) == Fresh(Scalars \cup {DefaultValue} \cup ArrayInputs(m))
CopyParams(m) == {Param("copy", NullValue, WRef)}
MoveParams(m) == {Param("move", NullValue, WRef)}
\* with every operation enabled the arguments are passed from w, which the
\* caller constructs first
Params(m) == CopyParams(m) \cup MoveParams(m)

\* temporaries and copies of any Value in reach, nothing moved from
ObjParams(m) ==
    Fresh(Scalars \cup {DefaultValue, ArrayValue(<<>>)})
    \cup {Param("copy", NullValue, r) : r \in RefsOf(m)}
KeyedParams(m) == ObjParams(m) \cup Fresh(MoreScalars)

IndicesOf(m, r) == 0..Len(AsArray(Deref(m, r)))

\* ---------------------------------------------------------------- actions
\* dst = <param>;
DoAssign(dst, p) ==
    LET o == RunAssign(mem, dst, p)
    IN  /\ mem' = o.mem
        /\ last' = Last("assign", dst)

\* r.set(key, <param>);
DoSet(r, key, p) ==
    LET o == RunSet(mem, r, key, p)
    IN  /\ mem' = o.mem
        /\ last' = Last("set", r)

\* r[key]
DoIndexKey(r, key) ==
    LET o == OpIndexKey(mem, r, key)
    IN  /\ mem' = o.mem
        /\ last' = Last("index_key", r)

\* r[index]
DoIndexIdx(r, index) ==
    LET o == OpIndexIdx(mem, r, index)
    IN  /\ mem' = o.mem
        /\ last' = Last("index_idx", r)

\* r.erase(key)
DoErase(r, key) ==
    LET o == OpErase(mem, r, key)
    IN  /\ mem' = o.mem
        /\ last' = Last("erase", r)

\* r.get(key)
DoGet(r, key) ==
    LET o == OpGet(mem, r, key)
    IN  /\ mem' = o.mem
        /\ last' = Last("get", r)

\* r.contains(key)
DoContains(r, key) ==
    LET o == OpContains(mem, r, key)
    IN  /\ mem' = o.mem
        /\ last' = Last("contains", r)

\* Value w(std::move(src));
DoMoveConstruct(src) ==
    LET o == RunMoveConstruct(mem, src)
    IN  /\ mem' = o.mem
        /\ last' = Last("move_ctor", src)

\* Value w(src);
DoCopyConstruct(src) ==
    LET o == RunCopyConstruct(mem, src)
    IN  /\ mem' = o.mem
        /\ last' = Last("copy_ctor", src)

\* Value w(<temporary>);
DoConstruct(x) ==
    /\ mem' = [mem EXCEPT !["w"] = x]
    /\ last' = Last("ctor", WRef)

\* ---- every operation, on a store of at most MaxNodes child Values
Assign ==
    \E dst \in Targets(mem), p \in Params(mem) : DoAssign(dst, p) /\ Bounded(mem')
Set ==
    \E r \in Targets(mem), key \in Keys, p \in Params(mem) :
        DoSet(r, key, p) /\ Bounded(mem')
IndexKey ==
    \E r \in Targets(mem), key \in Keys : DoIndexKey(r, key) /\ Bounded(mem')
IndexIdx ==
    \E r \in Targets(mem) : \E index \in IndicesOf(mem, r) : DoIndexIdx(r, index)
Erase == \E r \in Targets(mem), key \in Keys : DoErase(r, key)
Get == \E r \in Targets(mem), key \in Keys : DoGet(r, key)
MoveConstruct == \E src \in Targets(mem) : DoMoveConstruct(src)
CopyConstruct == \E src \in Targets(mem) : DoCopyConstruct(src) /\ Bounded(mem')
Construct == \E p \in FreshParams(mem) : DoConstruct(p.val) /\ Bounded(mem')

Next ==
    \/ Assign
    \/ Set
    \/ IndexKey
    \/ IndexIdx
    \/ Erase
    \/ Get
    \/ MoveConstruct
    \/ CopyConstruct
    \/ Construct

Spec == Init /\ [][Next]_vars

\* ---- set, mutable operator[], erase and assignment into children of the
\* ---- document, nothing moved from: at most MaxObjNodes child Values
SetKeyed ==
    \E r \in Targets(mem), key \in Keys, p \in KeyedParams(mem) :
        DoSet(r, key, p) /\ BoundedObj(mem')
IndexKeyKeyed ==
    \E r \in Targets(mem), key \in Keys : DoIndexKey(r, key) /\ BoundedObj(mem')
EraseKeyed == \E r \in Targets(mem), key \in Keys : DoErase(r, key)
AssignChild ==
    \E dst \in Children(mem), p \in KeyedParams(mem) :
        DoAssign(dst, p) /\ BoundedObj(mem')

NextKeyed ==
    \/ SetKeyed
    \/ IndexKeyKeyed
    \/ EraseKeyed
    \/ AssignChild

SpecKeyed == Init /\ [][NextKeyed]_vars

\* ---- the same with get, contains and with children moved from
SetObj ==
    \E r \in Targets(mem), key \in Keys, p \in ObjParams(mem) :
        DoSet(r, key, p) /\ BoundedObj(mem')
AssignChildObj ==
    \E dst \in Children(mem), p \in ObjParams(mem) :
        DoAssign(dst, p) /\ BoundedObj(mem')
GetObj == \E r \in Targets(mem), key \in Keys : DoGet(r, key)
ContainsObj == \E r \in Targets(mem), key \in Keys : DoContains(r, key)
MoveChild == \E src \in Children(mem) : DoMoveConstruct(src)

NextObject ==
    \/ SetObj
    \/ IndexKeyKeyed
    \/ EraseKeyed
    \/ AssignChildObj
    \/ GetObj
    \/ ContainsObj
    \/ MoveChild

SpecObject == Init /\ [][NextObject]_vars

\* ============================================================= properties
\* kind, payload and children alike, whatever the two Values' own keys
SameContent(x, y) == SetKey(x, NoKey) = SetKey(y, NoKey)

IsNull(x) == TypeOf(x) = "Null" /\ SameContent(x, NullValue)

HasKey(arr, key) == \E i \in 1..Len(arr) : ImplKey(arr[i]) = key

FirstWithKey(arr, key) ==
    CHOOSE i \in 1..Len(arr) :
        /\ ImplKey(arr[i]) = key
        /\ \A j \in 1..(i - 1) : ImplKey(arr[j]) # key

\* the value a parameter is built from, before the call
SrcValue(m, p) == IF p.kind = "fresh" THEN p.val ELSE Deref(m, p.ref)

ObjectsOf(m) == {r \in RefsOf(m) : TypeOf(Deref(m, r)) = "Object"}
ArraysOf(m) == {r \in RefsOf(m) : TypeOf(Deref(m, r)) = "Array"}
KidsOf(m, r) == AsArray(Deref(m, r))

C2_SetReplacesOrAppends ==
    \A r \in ObjectsOf(mem) \cap Targets(mem), key \in Keys, p \in ObjParams(mem) :
        LET arr  == KidsOf(mem, r)
            o    == RunSet(mem, r, key, p)
            arr2 == KidsOf(o.mem, r)
            val  == SrcValue(mem, p)
        IN  IF HasKey(arr, key)
            THEN LET i == FirstWithKey(arr, key)
                 IN  /\ Len(arr2) = Len(arr)
                     /\ SameContent(arr2[i], val)
                     /\ ImplKey(arr2[i]) = key
                     /\ \A j \in 1..Len(arr) : j # i => arr2[j] = arr[j]
            ELSE /\ Len(arr2) = Len(arr) + 1
                 /\ SubSeq(arr2, 1, Len(arr)) = arr
                 /\ SameContent(arr2[Len(arr2)], val)
                 /\ ImplKey(arr2[Len(arr2)]) = key

\* C3: the mutable operator[](key) on an Object without that key appends
\* exactly one child with that key and of kind Null and returns a reference
\* to it; afterwards contains(key) is true and get(key) succeeds.
C3_IndexCreatesNull ==
    \A r \in ObjectsOf(mem) \cap Targets(mem), key \in Keys :
        LET arr  == KidsOf(mem, r)
            o    == OpIndexKey(mem, r, key)
            arr2 == KidsOf(o.mem, r)
        IN  ~HasKey(arr, key) =>
                /\ Len(arr2) = Len(arr) + 1
                /\ SubSeq(arr2, 1, Len(arr)) = arr
                /\ ImplKey(arr2[Len(arr2)]) = key
                /\ TypeOf(arr2[Len(arr2)]) = "Null"
                /\ o.ret = ChildRef(r, Len(arr2))
                /\ OpContains(o.mem, r, key).res = "true"
                /\ OpGet(o.mem, r, key).res = "ok"

\* C4: after Value w(std::move(src)) with src not the dummy null, src is a
\* Null without children and w holds the kind, payload and children src
\* held; with src the dummy null, w is a new Null and the dummy null is as
\* it was.
C4_MoveConstruct ==
    \A src \in Targets(mem) :
        LET post == RunMoveConstruct(mem, src).mem
        IN  IF src # DummyRef
            THEN /\ SameContent(post["w"], Deref(mem, src))
                 /\ IsNull(Deref(post, src))
            ELSE /\ post["w"] = NullValue
                 /\ post[DummySlot] = mem[DummySlot]

\* w was move-constructed from the document, took its child, and left a Null
C4_Witness ==
    /\ last.op = "move_ctor"
    /\ ~last.dummy
    /\ TypeOf(mem["w"]) = "Object"
    /\ Len(AsArray(mem["w"])) = 1
    /\ IsNull(mem["v"])

\* C5: the dummy null is a Null with no key and no children in every
\* reachable state, whatever is applied through references to it.
C5_DummyIsNull == mem[DummySlot] = NullValue

\* an assignment has just been made through a reference to the dummy null
C5_Witness == last.op = "assign" /\ last.dummy /\ TypeOf(mem["w"]) = "Number"

\* C6: after dst = src with dst not the dummy null, dst has the kind, payload
\* and children of src, and the key dst carried before, if it carried one.
C6_AssignKeepsKey ==
    \A dst \in Targets(mem) \ {DummyRef}, p \in Params(mem) :
        LET post   == RunAssign(mem, dst, p).mem
            before == Deref(mem, dst)
        IN  /\ SameContent(Deref(post, dst), SrcValue(mem, p))
            /\ ImplKey(before) # NoKey
                  => ImplKey(Deref(post, dst)) = ImplKey(before)

\* the child keyed "b" was assigned the Number that w, keyed "a", holds
C6_Witness ==
    /\ last.op = "assign"
    /\ ~last.dummy
    /\ ImplKey(mem["w"]) = "a"
    /\ TypeOf(mem["w"]) = "Number"
    /\ Len(AsArray(mem["v"])) = 1
    /\ ImplKey(AsArray(mem["v"])[1]) = "b"
    /\ SameContent(AsArray(mem["v"])[1], mem["w"])

\* the children but the i-th, in their order
Without(arr, i) ==
    [j \in 1..(Len(arr) - 1) |-> IF j < i THEN arr[j] ELSE arr[j + 1]]

\* C7: erase(key) on an Object with a child of that key removes the first
\* such child and no other, keeps the order and returns true, and the same
\* erase again returns false and changes nothing; on a Value that is not an
\* Object erase returns false and changes nothing.
C7_EraseRemovesOne ==
    \A r \in Targets(mem), key \in Keys :
        LET arr == KidsOf(mem, r)
            o   == OpErase(mem, r, key)
            o2  == OpErase(o.mem, r, key)
        IN  IF TypeOf(Deref(mem, r)) = "Object"
            THEN HasKey(arr, key) =>
                    /\ o.res = "true"
                    /\ KidsOf(o.mem, r) = Without(arr, FirstWithKey(arr, key))
                    /\ o2.res = "false"
                    /\ o2.mem = o.mem
            ELSE o.res = "false" /\ o.mem = mem

\* C8: get(key) fails with "not an object" on another kind, succeeds with the
\* first child of that key, or fails with "key not found"; it never ends
\* abnormally and never changes the Value.
C8_GetThreeOutcomes ==
    \A r \in Targets(mem), key \in Keys :
        LET arr == KidsOf(mem, r)
            o   == OpGet(mem, r, key)
        IN  /\ o.mem = mem
            /\ IF TypeOf(Deref(mem, r)) # "Object" THEN o.res = "not an object"
               ELSE IF HasKey(arr, key)
                    THEN o.res = "ok" /\ o.ret = ChildRef(r, FirstWithKey(arr, key))
               ELSE o.res = "key not found"

\* C9: no top-level Value and no element of an Array carries a key.
C9_KeyOnlyInObject ==
    /\ \A s \in Slots : ImplKey(mem[s]) = NoKey
    /\ \A r \in ArraysOf(mem) :
          \A i \in 1..Len(KidsOf(mem, r)) : ImplKey(KidsOf(mem, r)[i]) = NoKey

\* C10: every direct child of an Object carries a key.
C10_ChildrenHaveKey ==
    \A r \in ObjectsOf(mem) :
        \A i \in 1..Len(KidsOf(mem, r)) : ImplKey(KidsOf(mem, r)[i]) # NoKey

====
